---- MODULE Spec2Model ----
(***************************************************************************)
(* A model of everybit/bitarray.c: the packed bit array, its single-bit    *)
(* and 64-bit accessors, the in-place range reversal and the rotation      *)
(* built from three reversals.                                             *)
(*                                                                         *)
(* Representation.                                                         *)
(*   - `char` is the signed 8-bit type of the x86-64 ABI: a buffer cell    *)
(*     holds a value in -128..127.  Integer promotion, & | ~ and the       *)
(*     conversion back to char are modelled on two's-complement integers.  *)
(*   - `uint64_t` does not fit TLC's integers; a word is a bit vector      *)
(*     [0..63 -> {0,1}], index 0 the least significant bit.  memcpy to and *)
(*     from a word is little-endian.                                       *)
(*   - A call runs on a machine record m:                                  *)
(*       mem    the handle's buffer followed by the bytes that happen to   *)
(*              lie behind it in memory (only an out-of-range call can     *)
(*              reach those)                                               *)
(*       alloc  the number of bytes calloc'ed by bitarray_new              *)
(*       bit_sz the handle's bit_sz field                                  *)
(*       st     "run", "assert" (an assert() failed: abort) or "segv"      *)
(*              (an access behind the buffer trapped)                      *)
(*       oob    a byte behind the buffer was read or written               *)
(*       trap   whether the first access behind the buffer traps; an       *)
(*              access behind the buffer is undefined behaviour, and both  *)
(*              outcomes are explored                                      *)
(*     Once st # "run" the process is gone and every later step of the     *)
(*     call is skipped.                                                    *)
(*   - assert() is modelled as compiled in (no NDEBUG).                    *)
(***************************************************************************)
EXTENDS Integers, Sequences, FiniteSets, TLC

\* ------------------------------------------------------------ constants
ByteBits == 8
WordBits == 64
WordBytes == 8
BulkBits == 128

\* ------------------------------------------------------------ C integers

RECURSIVE IntAnd(_, _)
\* a & b on two's-complement ints
IntAnd(a, b) ==
  IF a = 0 \/ b = 0 THEN 0
  ELSE IF a = -1 THEN b
  ELSE IF b = -1 THEN a
  ELSE 2 * IntAnd(a \div 2, b \div 2) + (a % 2) * (b % 2)

RECURSIVE IntOr(_, _)
\* a | b on two's-complement ints
IntOr(a, b) ==
  IF a = 0 THEN b
  ELSE IF b = 0 THEN a
  ELSE IF a = -1 \/ b = -1 THEN -1
  ELSE 2 * IntOr(a \div 2, b \div 2) + (IF (a % 2) + (b % 2) > 0 THEN 1 ELSE 0)

\* ~a
IntNot(a) == -a - 1

\* conversion of an int to char (signed, 8 bits)
ToChar(x) == LET u == x % 256 IN IF u >= 128 THEN u - 256 ELSE u

\* conversion to uint8_t
ToU8(x) == x % 256

\* ------------------------------------------------------------ uint64_t

WordIdx == 0..(WordBits - 1)

U64Zero == [j \in WordIdx |-> 0]

\* (uint64_t) of a uint8_t
U64OfU8(b) == [j \in WordIdx |-> IF j < ByteBits THEN (b \div (2^j)) % 2 ELSE 0]

\* (uint8_t) of a uint64_t
U8OfU64(w) ==
  w[0] + 2*w[1] + 4*w[2] + 8*w[3] + 16*w[4] + 32*w[5] + 64*w[6] + 128*w[7]

\* w >> n and w << n, 0 <= n < 64
U64Shr(w, n) == [j \in WordIdx |-> IF j + n < WordBits THEN w[j + n] ELSE 0]
U64Shl(w, n) == [j \in WordIdx |-> IF j >= n THEN w[j - n] ELSE 0]
U64Or(a, b) == [j \in WordIdx |-> IF a[j] + b[j] > 0 THEN 1 ELSE 0]
U64And(a, b) == [j \in WordIdx |-> a[j] * b[j]]

\* (1ULL << n) - 1
U64LowMask(n) == [j \in WordIdx |-> IF j < n THEN 1 ELSE 0]

\* __builtin_bitreverse64
bitreverse64(w) == [j \in WordIdx |-> w[WordBits - 1 - j]]

\* ------------------------------------------------------------ memory

\* The effect of touching the bytes up to index `last`.
Access(m, last) ==
  IF last < m.alloc THEN m
  ELSE [m EXCEPT !.oob = TRUE, !.st = IF m.trap THEN "segv" ELSE @]

\* memcpy(&word, buf + byte_idx, sizeof(uint64_t))
LoadU64(mem, byte_idx) ==
  [j \in WordIdx |-> ((mem[byte_idx + (j \div ByteBits)] % 256) \div (2^(j % ByteBits))) % 2]

\* the char stored at byte k of a word
WordByte(w, k) ==
  ToChar(U8OfU64(U64Shr(w, ByteBits * k)))

\* memcpy(buf + byte_idx, &word, sizeof(uint64_t))
StoreU64(mem, byte_idx, w) ==
  [mem EXCEPT ![byte_idx]     = WordByte(w, 0),
              ![byte_idx + 1] = WordByte(w, 1),
              ![byte_idx + 2] = WordByte(w, 2),
              ![byte_idx + 3] = WordByte(w, 3),
              ![byte_idx + 4] = WordByte(w, 4),
              ![byte_idx + 5] = WordByte(w, 5),
              ![byte_idx + 6] = WordByte(w, 6),
              ![byte_idx + 7] = WordByte(w, 7)]

\* ------------------------------------------------------------ bit accessor

bitmask(bit_index) == ToChar(2^(bit_index % 8))

bitarray_get(m, bit_index) ==
  IF m.st # "run" THEN [m |-> m, val |-> FALSE]
  ELSE IF ~(bit_index < m.bit_sz)
    THEN [m |-> [m EXCEPT !.st = "assert"], val |-> FALSE]
  ELSE [m |-> m,
        val |-> IntAnd(m.mem[bit_index \div 8], bitmask(bit_index)) # 0]

\* (mutant) the old bit is not cleared before the new one is or-ed in
bitarray_set_noclear(m, bit_index, value) ==
  IF m.st # "run" THEN m
  ELSE IF ~(bit_index < m.bit_sz) THEN [m EXCEPT !.st = "assert"]
  ELSE [m EXCEPT !.mem[bit_index \div 8] =
          ToChar(IntOr(@, IF value THEN bitmask(bit_index) ELSE 0))]

bitarray_set(m, bit_index, value) ==
  IF m.st # "run" THEN m
  ELSE IF ~(bit_index < m.bit_sz) THEN [m EXCEPT !.st = "assert"]
  ELSE [m EXCEPT !.mem[bit_index \div 8] =
          ToChar(IntOr(IntAnd(@, IntNot(bitmask(bit_index))),
                       IF value THEN bitmask(bit_index) ELSE 0))]

\* ------------------------------------------------------------ wide accessor

\* (mutant) the ninth byte is read whatever the offset
bitarray_get_u64_nine(m, bit_index) ==
  LET byte_idx == bit_index \div 8
      bit_off  == bit_index % 8
      m2       == Access(m, byte_idx + WordBytes)
      low_word == LoadU64(m.mem, byte_idx)
      high_byte == ToU8(m.mem[byte_idx + WordBytes])
  IN IF m.st # "run" THEN [m |-> m, val |-> U64Zero]
     ELSE IF m2.st # "run" THEN [m |-> m2, val |-> U64Zero]
     ELSE IF bit_off = 0 THEN [m |-> m2, val |-> low_word]
     ELSE [m |-> m2,
           val |-> U64Or(U64Shr(low_word, bit_off),
                         U64Shl(U64OfU8(high_byte), WordBits - bit_off))]

bitarray_get_u64(m, bit_index) ==
  LET byte_idx == bit_index \div 8
      bit_off  == bit_index % 8
      m1       == Access(m, byte_idx + WordBytes - 1)
      low_word == LoadU64(m.mem, byte_idx)
      m2       == Access(m1, byte_idx + WordBytes)
      high_byte == ToU8(m.mem[byte_idx + WordBytes])
  IN IF m.st # "run" THEN [m |-> m, val |-> U64Zero]
     ELSE IF m1.st # "run" THEN [m |-> m1, val |-> U64Zero]
     ELSE IF bit_off = 0 THEN [m |-> m1, val |-> low_word]
     ELSE IF m2.st # "run" THEN [m |-> m2, val |-> U64Zero]
     ELSE [m |-> m2,
           val |-> U64Or(U64Shr(low_word, bit_off),
                         U64Shl(U64OfU8(high_byte), WordBits - bit_off))]

\* (mutant) the ninth byte is overwritten without mask_hi
bitarray_set_u64_clobber(m, bit_index, value) ==
  LET byte_idx == bit_index \div 8
      bit_off  == bit_index % 8
      m1       == Access(m, byte_idx + WordBytes - 1)
      old_word == LoadU64(m.mem, byte_idx)
      m2       == Access(m1, byte_idx + WordBytes)
      mask_lo  == U64LowMask(bit_off)
      new_word == U64Or(U64And(old_word, mask_lo), U64Shl(value, bit_off))
      new_byte == U8OfU64(U64Shr(value, WordBits - bit_off))
  IN IF m.st # "run" THEN m
     ELSE IF m1.st # "run" THEN m1
     ELSE IF bit_off = 0
       THEN [m1 EXCEPT !.mem = StoreU64(@, byte_idx, value)]
     ELSE IF m2.st # "run" THEN m2
     ELSE [m2 EXCEPT !.mem =
             [StoreU64(@, byte_idx, new_word) EXCEPT ![byte_idx + WordBytes] = ToChar(new_byte)]]

bitarray_set_u64(m, bit_index, value) ==
  LET byte_idx == bit_index \div 8
      bit_off  == bit_index % 8
      m1       == Access(m, byte_idx + WordBytes - 1)
      old_word == LoadU64(m.mem, byte_idx)
      m2       == Access(m1, byte_idx + WordBytes)
      old_byte == ToU8(m.mem[byte_idx + WordBytes])
      mask_lo  == U64LowMask(bit_off)
      mask_hi  == ToU8(IntNot(2^bit_off - 1))
      new_word == U64Or(U64And(old_word, mask_lo), U64Shl(value, bit_off))
      new_byte == ToU8(IntOr(IntAnd(old_byte, mask_hi),
                             U8OfU64(U64Shr(value, WordBits - bit_off))))
  IN IF m.st # "run" THEN m
     ELSE IF m1.st # "run" THEN m1
     ELSE IF bit_off = 0
       THEN [m1 EXCEPT !.mem = StoreU64(@, byte_idx, value)]
     ELSE IF m2.st # "run" THEN m2
     ELSE [m2 EXCEPT !.mem =
             [StoreU64(@, byte_idx, new_word) EXCEPT ![byte_idx + WordBytes] = ToChar(new_byte)]]

\* ------------------------------------------------------------ range reversal
\* (Each intermediate value of a loop body is handed on as an operator
\* argument, so that every accessor call appears once.)

\* (mutant) the two words change places without being bit-reversed
StoreWordsNoReverse(lv, g2, left, right) ==
  bitarray_set_u64(bitarray_set_u64(g2.m, right - WordBits, lv), left, g2.val)

\* bitarray_set_u64(right - 64, left_val); bitarray_set_u64(left, right_val)
StoreWords(lv, g2, left, right) ==
  bitarray_set_u64(bitarray_set_u64(g2.m, right - WordBits, bitreverse64(lv)),
                   left, bitreverse64(g2.val))

\* right_val = bitarray_get_u64(right - 64), then the two stores
SwapWords(g1, left, right) ==
  StoreWords(g1.val, bitarray_get_u64(g1.m, right - WordBits), left, right)

\* One iteration of the bulk loop (lines 223-230).
BulkStep(m, left, right) ==
  SwapWords(bitarray_get_u64(m, left), left, right)

RECURSIVE BulkLoop(_, _, _, _)
\* while (remaining >= 128) { ...; left += 64; right -= 64; remaining -= 128; }
BulkLoop(m, left, right, remaining) ==
  IF remaining >= BulkBits /\ m.st = "run"
    THEN BulkLoop(BulkStep(m, left, right), left + WordBits, right - WordBits,
                  remaining - BulkBits)
    ELSE [m |-> m, left |-> left, right |-> right, remaining |-> remaining]

\* (mutant) a swap without the temporary: bit i is read again after it was written
StoreBitsNoTemp(temp, g2, i, mirror_idx) ==
  bitarray_set(bitarray_set(g2.m, i, g2.val), mirror_idx, g2.val)

\* bitarray_set(i, bitarray_get(mirror_idx)); bitarray_set(mirror_idx, temp)
StoreBits(temp, g2, i, mirror_idx) ==
  bitarray_set(bitarray_set(g2.m, i, g2.val), mirror_idx, temp)

\* temp = bitarray_get(i), bitarray_get(mirror_idx), then the two stores
SwapBits(g1, i, mirror_idx) ==
  StoreBits(g1.val, bitarray_get(g1.m, mirror_idx), i, mirror_idx)

\* One iteration of the tail loop (lines 239-243).
TailStep(m, i, left, right) ==
  SwapBits(bitarray_get(m, i), i, (right - 1) - (i - left))

RECURSIVE TailLoop(_, _, _, _, _)
\* for (i = left; i < final_mid; ++i) { ... }
TailLoop(m, i, final_mid, left, right) ==
  IF i < final_mid /\ m.st = "run"
    THEN TailLoop(TailStep(m, i, left, right), i + 1, final_mid, left, right)
    ELSE m

\* final_mid = left + remaining / 2
FinalMid(left, remaining) == left + (remaining \div 2)

\* The tail phase, from the state b the bulk loop ends in.
ReverseTail(b) ==
  TailLoop(b.m, b.left, FinalMid(b.left, b.remaining), b.left, b.right)

bitarray_reverse_range(m, start, length) ==
  ReverseTail(BulkLoop(m, start, start + length, length))

\* ------------------------------------------------------------ rotation

\* (mutant) a negative amount is reduced but not turned into a right rotation
normalize_noflip(bit_length, bit_right_amount) ==
  IF bit_right_amount < 0
    THEN (-bit_right_amount) % bit_length
    ELSE bit_right_amount % bit_length

\* The amount after lines 257-261.
normalize(bit_length, bit_right_amount) ==
  IF bit_right_amount < 0
    THEN bit_length - ((-bit_right_amount) % bit_length)
    ELSE bit_right_amount % bit_length

\* (mutant) the two blocks are split at the amount, not at length - amount
ThreeReversalsSwapped(m, bit_offset, bit_length, amount, split_idx) ==
  bitarray_reverse_range(
    bitarray_reverse_range(
      bitarray_reverse_range(m, bit_offset, amount),
      bit_offset + amount, split_idx),
    bit_offset, bit_length)

\* Lines 267-270.
ThreeReversals(m, bit_offset, bit_length, amount, split_idx) ==
  bitarray_reverse_range(
    bitarray_reverse_range(
      bitarray_reverse_range(m, bit_offset, split_idx),
      bit_offset + split_idx, amount),
    bit_offset, bit_length)

\* Lines 263-270, with the normalized amount.
RotateBy(m, bit_offset, bit_length, amount) ==
  IF amount = 0 THEN m
  ELSE ThreeReversals(m, bit_offset, bit_length, amount, bit_length - amount)

bitarray_rotate(m, bit_offset, bit_length, bit_right_amount) ==
  IF bit_length = 0 THEN m
  ELSE RotateBy(m, bit_offset, bit_length, normalize(bit_length, bit_right_amount))

\* ------------------------------------------------------------ construction

\* bitarray_new: a zeroed buffer of ceil(bit_sz/8) bytes, or NULL when an
\* allocation fails.
bitarray_new(sz, ok) ==
  IF ok
    THEN [handle |-> "live", bit_sz |-> sz,
          buf |-> [i \in 0..(((sz + 7) \div 8) - 1) |-> 0]]
    ELSE [handle |-> "null", bit_sz |-> 0, buf |-> << >>]

\* bitarray_free(p): p is "null", "live" or "freed" (a dangling pointer to a
\* handle that bitarray_free has already released).  h counts what happened
\* to the handle's memory.  Reading a freed handle's buf field is undefined
\* behaviour: `seen` is what the read yields, "null" (the NULL stored on line
\* 126 is still there) or "stale" (the old buffer address: the dead store was
\* dropped, or the block was reused).
bitarray_free(p, h, seen) ==
  IF p = "null" THEN h
  ELSE IF p = "live"
    THEN [h EXCEPT !.buf_freed = @ + 1, !.struct_freed = @ + 1]
  ELSE [h EXCEPT !.uaf = TRUE,
                 !.buf_freed = IF seen = "stale" THEN @ + 1 ELSE @,
                 !.struct_freed = @ + 1]

\* ------------------------------------------------------------ inputs

\* Arrays too short for the bulk loop are exercised exhaustively, with bit_sz in
\* {ByteBits, MaxSmall}; large ones at chosen ranges.
MaxSmall == 11
\* Rotation amounts of the small arrays: -MaxAmount..MaxAmount.
MaxAmount == 12
\* How far behind bit_sz an out-of-range call on a small array may reach.
MaxOver == 2

SmallSizes == {ByteBits, MaxSmall}
BigSizes == {BulkBits + ByteBits + 1, 200, 2 * BulkBits + ByteBits - 1}
Sizes == SmallSizes \cup BigSizes

IsSmall(sz) == sz < BulkBits

Patterns == {"example", "hole", "mixed"}

\* The value the client gives bit i.
PatternBit(p, i) ==
  CASE p = "example" -> (i % 8) \in {0, 2, 3, 6}
    [] p = "hole"    -> i # 150
    [] OTHER         -> ((i * i) \div 5 + (i \div 3)) % 2 = 1

\* Bytes that may lie behind the buffer.
PadBytes == {0, -1}

\* ------------------------------------------------------------ state

VARIABLES
  handle,   \* the client's pointer: "live", "null", "freed" (dangling), "corrupt"
  bit_sz,   \* bitarray->bit_sz
  buf,      \* bitarray->buf: the allocated bytes, [0..alloc-1 -> char]
  heap,     \* what happened to the handle's memory: buf_freed, struct_freed, uaf
  pc,       \* the client: "new", "ready", "inrev", "called", "undone", "observed", "end"
  call,     \* the last call and how it ended
  obs,      \* the last bitarray_get: index and value returned
  pre,      \* buf before the last call
  orig,     \* buf before the call that the last call undoes
  rv        \* the activation of bitarray_reverse_range while it runs

vars == <<handle, bit_sz, buf, heap, pc, call, obs, pre, orig, rv>>

Alloc(sz) == (sz + 7) \div 8

Max(a, b) == IF a > b THEN a ELSE b

\* The machine a call on the handle starts in: the buffer, and behind it
\* enough bytes (of value pad) for the call's range and one more.
Machine(b, sz, lastbit, pad, trap) ==
  [mem    |-> [i \in 0..Max(Alloc(sz), Alloc(lastbit)) |->
                 IF i < Alloc(sz) THEN b[i] ELSE pad],
   alloc  |-> Alloc(sz),
   bit_sz |-> sz,
   st     |-> "run",
   oob    |-> FALSE,
   trap   |-> trap]

\* The handle's buffer after a call.
BufOf(m) == [i \in 0..(m.alloc - 1) |-> m.mem[i]]


NoCall == [op |-> "none"]
NoObs == [index |-> -1, val |-> FALSE, st |-> "run"]
NoRv == [pc |-> "idle"]
NoHeap == [buf_freed |-> 0, struct_freed |-> 0, uaf |-> FALSE]

\* ------------------------------------------------------------ actions

Init ==
  \E sz \in Sizes, ok \in BOOLEAN :
    LET n == bitarray_new(sz, ok) IN
    /\ handle = n.handle
    /\ bit_sz = n.bit_sz
    /\ buf = n.buf
    /\ heap = NoHeap
    /\ pc = IF ok THEN "new" ELSE "end"
    /\ call = NoCall
    /\ obs = NoObs
    /\ pre = << >>
    /\ orig = << >>
    /\ rv = NoRv

RECURSIVE FillRange(_, _, _, _)
\* The client's bitarray_set(a, i, pattern[i]) for every i in lo..hi-1, in
\* increasing order.
FillRange(m, p, lo, hi) ==
  IF m.st # "run" \/ hi <= lo THEN m
  ELSE IF hi = lo + 1 THEN bitarray_set(m, lo, PatternBit(p, lo))
  ELSE LET mid == (lo + hi) \div 2
       IN FillRange(FillRange(m, p, lo, mid), p, mid, hi)

\* The client writes a pattern through bitarray_set.
Fill(p) ==
  /\ pc = "new" /\ handle = "live"
  /\ buf' = BufOf(FillRange(Machine(buf, bit_sz, bit_sz, 0, FALSE), p, 0, bit_sz))
  /\ pc' = "ready"
  /\ UNCHANGED <<handle, bit_sz, heap, call, obs, pre, orig, rv>>

SetIndices(sz) ==
  IF IsSmall(sz) THEN 0..sz ELSE {0, 7, 8, 63, 64, sz - 2, sz - 1, sz}

\* bitarray_set(a, i, v)
Set(i, v) ==
  /\ pc = "ready" /\ handle = "live"
  /\ LET r == bitarray_set(Machine(buf, bit_sz, bit_sz, 0, FALSE), i, v) IN
     /\ buf' = BufOf(r)
     /\ bit_sz' = r.bit_sz
     /\ call' = [op |-> "set", index |-> i, value |-> v, st |-> r.st]
  /\ pre' = buf /\ orig' = buf
  /\ pc' = "called"
  /\ UNCHANGED <<handle, heap, obs, rv>>

\* bitarray_get(a, j) after a bitarray_set
Get(j) ==
  /\ pc = "called" /\ handle = "live" /\ call.op = "set" /\ call.st = "run"
  /\ LET r == bitarray_get(Machine(buf, bit_sz, bit_sz, 0, FALSE), j) IN
     /\ obs' = [index |-> j, val |-> r.val, st |-> r.m.st]
     /\ buf' = BufOf(r.m)
  /\ pc' = "observed"
  /\ UNCHANGED <<handle, bit_sz, heap, call, pre, orig, rv>>

\* The outcomes of bitarray_rotate(a, o, l, k): the run with zero bytes
\* behind the buffer and no trap, and, when that run reached behind the
\* buffer, the runs with the other bytes there and with a trap.
RotateRun(b, sz, o, l, k, pad, trap) ==
  bitarray_rotate(Machine(b, sz, o + l, pad, trap), o, l, k)

OutcomesFrom(r0, b, sz, o, l, k) ==
  IF ~r0.oob THEN {r0}
  ELSE {RotateRun(b, sz, o, l, k, pad, trap) : pad \in PadBytes, trap \in BOOLEAN}

RotateOutcomes(b, sz, o, l, k) ==
  OutcomesFrom(RotateRun(b, sz, o, l, k, 0, FALSE), b, sz, o, l, k)

RotateCall(o, l, k, r, back) ==
  [op |-> "rotate", offset |-> o, length |-> l, amount |-> k, sz0 |-> bit_sz,
   norm |-> IF l = 0 THEN 0 ELSE normalize(l, k),
   st |-> r.st, oob |-> r.oob, back |-> back]

SmallRanges(sz) ==
  {<<o, l>> \in (0..sz) \X (0..(sz + MaxOver)) : o + l <= sz + MaxOver}

\* Ranges of a large array: every sub-byte alignment of the first bit with
\* the last bit at or just before bit_sz, the range of the 200-bit scenario,
\* and three that reach behind bit_sz.
BigRanges(sz) ==
  {<<o, sz - o - (o % 3)>> : o \in 0..(ByteBits - 1)}
    \cup {<<10, 180>> : x \in {sz} \cap {200}}
    \cup {<<sz - BulkBits + 1, BulkBits>>, <<sz - BulkBits - 3, BulkBits + 9>>,
          <<sz - WordBits, WordBits + 2>>}

Ranges(sz) == IF IsSmall(sz) THEN SmallRanges(sz) ELSE BigRanges(sz)

Amounts(sz, l) ==
  IF IsSmall(sz) THEN (-MaxAmount)..MaxAmount ELSE {-47, 47, -l}

\* bitarray_rotate(a, o, l, k)
Rotate(o, l, k) ==
  /\ pc = "ready" /\ handle = "live"
  /\ \E r \in RotateOutcomes(buf, bit_sz, o, l, k) :
       /\ buf' = BufOf(r)
       /\ bit_sz' = r.bit_sz
       /\ call' = RotateCall(o, l, k, r, FALSE)
  /\ pre' = buf /\ orig' = buf
  /\ pc' = "called"
  /\ UNCHANGED <<handle, heap, obs, rv>>

\* bitarray_rotate(a, o, l, -k) after a bitarray_rotate(a, o, l, k) that returned
RotateBack ==
  /\ pc = "called" /\ handle = "live"
  /\ call.op = "rotate" /\ call.st = "run" /\ ~call.oob
  /\ \E r \in RotateOutcomes(buf, bit_sz, call.offset, call.length, -call.amount) :
       /\ buf' = BufOf(r)
       /\ bit_sz' = r.bit_sz
       /\ call' = RotateCall(call.offset, call.length, -call.amount, r, TRUE)
  /\ pre' = buf
  /\ pc' = "undone"
  /\ UNCHANGED <<handle, heap, obs, orig, rv>>

\* bitarray_free(a) on a live handle
Free ==
  /\ handle = "live" /\ pc # "inrev"
  /\ heap' = bitarray_free("live", heap, "null")
  /\ handle' = "freed"
  /\ buf' = << >>
  /\ pc' = "end"
  /\ call' = [op |-> "free"]
  /\ obs' = NoObs /\ pre' = << >> /\ orig' = << >> /\ rv' = NoRv
  /\ UNCHANGED bit_sz

\* bitarray_free(NULL), the handle of a failed bitarray_new
FreeNull ==
  /\ handle = "null" /\ call.op = "none"
  /\ heap' = bitarray_free("null", heap, "null")
  /\ call' = [op |-> "free_null"]
  /\ UNCHANGED <<handle, bit_sz, buf, pc, obs, pre, orig, rv>>

\* bitarray_free(a) again, on the dangling pointer
FreeAgain(seen) ==
  /\ handle = "freed"
  /\ heap' = bitarray_free("freed", heap, seen)
  /\ handle' = "corrupt"
  /\ call' = [op |-> "free_again"]
  /\ UNCHANGED <<bit_sz, buf, pc, obs, pre, orig, rv>>

\* bitarray_new after the previous handle is gone
New(sz, ok) ==
  /\ handle \in {"freed", "null"}
  /\ LET n == bitarray_new(sz, ok) IN
     /\ handle' = n.handle
     /\ bit_sz' = n.bit_sz
     /\ buf' = n.buf
  /\ heap' = NoHeap
  /\ pc' = IF ok THEN "new" ELSE "end"
  /\ call' = NoCall
  /\ obs' = NoObs /\ pre' = << >> /\ orig' = << >> /\ rv' = NoRv

\* ------------------------------------------------------------ reversal, step by step

\* How far before bit_sz the ranges of a large array end: every distance
\* below 8 for the shortest array (whose two words then share a byte), every
\* third for the others.
EndGaps(sz) == {e \in 0..(ByteBits - 1) : sz < BulkBits + WordBits \/ e % 3 = 0}

\* Ranges bitarray_reverse_range is run on: all of a small array's, and for
\* a large array every sub-byte alignment of the first bit with the last bit
\* near bit_sz, and the shortest ranges that take the bulk loop.
ReverseRanges(sz) ==
  IF IsSmall(sz)
    THEN {rg \in SmallRanges(sz) : rg[1] + rg[2] <= sz}
    ELSE {<<s, sz - s - e>> : s \in 0..(ByteBits - 1), e \in EndGaps(sz)}
           \cup {<<0, BulkBits>>, <<3, BulkBits + 1>>, <<sz - BulkBits, BulkBits>>}

Activation(start, length, m, round) ==
  [pc |-> "bulk", start |-> start, length |-> length,
   left |-> start, right |-> start + length, remaining |-> length,
   i |-> 0, final_mid |-> 0, m |-> m, round |-> round]

\* bitarray_reverse_range(a, start, length) is entered (lines 217-219)
RevBegin(start, length) ==
  /\ pc = "ready" /\ handle = "live"
  /\ rv' = Activation(start, length, Machine(buf, bit_sz, start + length, 0, FALSE), 1)
  /\ pre' = buf /\ orig' = buf
  /\ pc' = "inrev"
  /\ UNCHANGED <<handle, bit_sz, buf, heap, call, obs>>

\* one iteration of the bulk loop (lines 221-235)
RevBulkIter ==
  /\ pc = "inrev" /\ rv.pc = "bulk"
  /\ rv.remaining >= BulkBits /\ rv.m.st = "run"
  /\ rv' = [rv EXCEPT !.m = BulkStep(rv.m, rv.left, rv.right),
                      !.left = @ + WordBits,
                      !.right = @ - WordBits,
                      !.remaining = @ - BulkBits]
  /\ UNCHANGED <<handle, bit_sz, buf, heap, pc, call, obs, pre, orig>>

\* the bulk loop ends (line 237)
RevBulkExit ==
  /\ pc = "inrev" /\ rv.pc = "bulk"
  /\ ~(rv.remaining >= BulkBits /\ rv.m.st = "run")
  /\ rv' = [rv EXCEPT !.pc = "tail", !.i = rv.left,
                      !.final_mid = FinalMid(rv.left, rv.remaining)]
  /\ UNCHANGED <<handle, bit_sz, buf, heap, pc, call, obs, pre, orig>>

\* one iteration of the tail loop (lines 238-244)
RevTailIter ==
  /\ pc = "inrev" /\ rv.pc = "tail"
  /\ rv.i < rv.final_mid /\ rv.m.st = "run"
  /\ rv' = [rv EXCEPT !.m = TailStep(rv.m, rv.i, rv.left, rv.right), !.i = @ + 1]
  /\ UNCHANGED <<handle, bit_sz, buf, heap, pc, call, obs, pre, orig>>

\* bitarray_reverse_range returns (line 245)
RevReturn ==
  /\ pc = "inrev" /\ rv.pc = "tail"
  /\ ~(rv.i < rv.final_mid /\ rv.m.st = "run")
  /\ buf' = BufOf(rv.m)
  /\ bit_sz' = rv.m.bit_sz
  /\ call' = [op |-> "reverse", start |-> rv.start, length |-> rv.length,
              st |-> rv.m.st, oob |-> rv.m.oob, round |-> rv.round,
              left |-> rv.left, right |-> rv.right]
  /\ pc' = IF rv.round = 1 THEN "called" ELSE "undone"
  /\ rv' = NoRv
  /\ UNCHANGED <<handle, heap, obs, pre, orig>>

\* bitarray_reverse_range(a, start, length) once more on the same range
RevAgain ==
  /\ pc = "called" /\ handle = "live" /\ call.op = "reverse" /\ call.st = "run"
  /\ rv' = Activation(call.start, call.length,
                      Machine(buf, bit_sz, call.start + call.length, 0, FALSE), 2)
  /\ pre' = buf
  /\ pc' = "inrev"
  /\ UNCHANGED <<handle, bit_sz, buf, heap, call, obs, orig>>

NextRev ==
  \/ \E p \in Patterns : Fill(p)
  \/ \E rg \in ReverseRanges(bit_sz) : RevBegin(rg[1], rg[2])
  \/ RevBulkIter
  \/ RevBulkExit
  \/ RevTailIter
  \/ RevReturn
  \/ RevAgain

SpecRev == Init /\ [][NextRev]_vars

\* ------------------------------------------------------------ the API

Next ==
  \/ \E p \in Patterns : Fill(p)
  \/ \E i \in SetIndices(bit_sz), v \in BOOLEAN : Set(i, v)
  \/ \E j \in SetIndices(bit_sz) : Get(j)
  \/ \E rg \in Ranges(bit_sz) : \E k \in Amounts(bit_sz, rg[2]) : Rotate(rg[1], rg[2], k)
  \/ RotateBack
  \/ Free
  \/ FreeNull
  \/ \E seen \in {"null", "stale"} : FreeAgain(seen)
  \/ \E sz \in Sizes, ok \in BOOLEAN : New(sz, ok)

Spec == Init /\ [][Next]_vars

\* ------------------------------------------------------------ properties

\* bitarray_get on a buffer of sz bits
GetBit(b, sz, i) == bitarray_get(Machine(b, sz, sz, 0, FALSE), i).val

\* The array as the sequence of its bits, index 0 first.
Bits(b, sz) == [i \in 1..sz |-> IF GetBit(b, sz, i - 1) THEN 1 ELSE 0]

\* The last call was a bitarray_rotate whose range lies inside the array.
ValidRotate == call.op = "rotate" /\ call.offset + call.length <= bit_sz

\* The last call was a bitarray_reverse_range that returned.
Reversed == call.op = "reverse" /\ pc \in {"called", "undone"}

\* C1: after bitarray_rotate(offset, length, k) on a range inside the array,
\* the bit at offset + ((i + k) mod length) is the bit that was at offset + i,
\* for every i in [0, length); and 10110010 rotated right by 3 is 01010110.
C1_RotateRight ==
  (ValidRotate /\ call.length > 0) =>
    /\ call.st = "run"
    /\ \A i \in 0..(call.length - 1) :
         GetBit(buf, bit_sz, call.offset + ((i + call.amount) % call.length))
           = GetBit(pre, bit_sz, call.offset + i)
    /\ (/\ bit_sz = 8 /\ Bits(pre, bit_sz) = <<1, 0, 1, 1, 0, 0, 1, 0>>
        /\ call.offset = 0 /\ call.length = 8 /\ call.amount = 3)
         => Bits(buf, bit_sz) = <<0, 1, 0, 1, 0, 1, 1, 0>>

C1_Witness ==
  /\ ValidRotate /\ pc = "called"
  /\ bit_sz = 8 /\ call.offset = 0 /\ call.length = 8 /\ call.amount = 3
  /\ Bits(pre, bit_sz) = <<1, 0, 1, 1, 0, 0, 1, 0>>
  /\ Bits(buf, bit_sz) = <<0, 1, 0, 1, 0, 1, 1, 0>>

\* C2: bitarray_rotate on a range inside the array leaves every bit outside
\* the range, and bit_sz, as they were.
C2_Frame ==
  ValidRotate =>
    /\ bit_sz = call.sz0
    /\ \A j \in 0..(bit_sz - 1) :
         (j < call.offset \/ j >= call.offset + call.length)
           => GetBit(buf, bit_sz, j) = GetBit(pre, bit_sz, j)

\* A range of 128 bits or more, neither end on a byte boundary, whose
\* neighbours on both sides are set bits in the bytes of its first and last bit.
C2_Witness ==
  /\ ValidRotate /\ call.st = "run" /\ call.norm # 0
  /\ call.length >= BulkBits
  /\ call.offset % ByteBits # 0
  /\ (call.offset + call.length) % ByteBits # 0
  /\ call.offset + call.length < bit_sz
  /\ GetBit(pre, bit_sz, call.offset - 1)
  /\ GetBit(pre, bit_sz, call.offset + call.length)
  /\ buf # pre

\* C3: bitarray_rotate(offset, length, k) and then bitarray_rotate(offset,
\* length, -k), on a range inside the array, restore every byte of the buffer.
C3_RoundTrip ==
  (ValidRotate /\ pc = "undone") => (call.st = "run" /\ buf = orig)

\* The 200-bit scenario: all bits set but bit 150, range (10, 180), -47 then 47.
C3_Witness ==
  /\ ValidRotate /\ pc = "undone"
  /\ bit_sz = 200 /\ call.offset = 10 /\ call.length = 180 /\ call.amount = 47
  /\ \A i \in 0..199 : GetBit(orig, bit_sz, i) = (i # 150)
  /\ pre # orig
  /\ buf = orig

\* C4: after bitarray_set(i, v), bitarray_get(i) returns v and bitarray_get(j)
\* returns what it returned before, for every other valid j.
C4_SetGet ==
  (pc = "observed" /\ call.op = "set" /\ call.index < bit_sz
     /\ obs.index < bit_sz) =>
    /\ call.st = "run" /\ obs.st = "run"
    /\ obs.val = (IF obs.index = call.index THEN call.value
                  ELSE GetBit(pre, bit_sz, obs.index))
    /\ \A j \in 0..(bit_sz - 1) :
         GetBit(buf, bit_sz, j)
           = (IF j = call.index THEN call.value ELSE GetBit(pre, bit_sz, j))

\* Bit 7 of a byte (the mask is the negative char -128) is cleared and read
\* back, its neighbour bits set.
C4_Witness ==
  /\ pc = "observed" /\ call.op = "set" /\ call.st = "run"
  /\ call.index % 8 = 7 /\ bitmask(call.index) < 0
  /\ ~call.value /\ GetBit(pre, bit_sz, call.index)
  /\ obs.index = call.index /\ ~obs.val
  /\ GetBit(buf, bit_sz, call.index - 1)

\* C5: bitarray_rotate changes nothing when length is 0 or 1, and when the
\* amount is a multiple of the length of a range inside the array.
C5_NoOp ==
  (/\ call.op = "rotate"
   /\ \/ call.length = 0
      \/ call.length = 1
      \/ (ValidRotate /\ call.amount % call.length = 0)) =>
    (call.st = "run" /\ ~call.oob /\ buf = pre /\ bit_sz = call.sz0)

\* A rotation by -length of a range of 128 bits or more that is not its own
\* mirror image.
C5_Witness ==
  /\ ValidRotate /\ pc = "called"
  /\ call.length >= BulkBits /\ call.amount = -call.length
  /\ \E i \in 0..(call.length - 1) :
       GetBit(pre, bit_sz, call.offset + i)
         # GetBit(pre, bit_sz, call.offset + call.length - 1 - i)
  /\ buf = pre

\* C6 (as claimed): a bitarray_rotate with length > 0 whose range reaches
\* behind bit_sz ends in an assertion failure, having touched no byte behind
\* the buffer and changed no bit.
C6_FailsLoudly ==
  (call.op = "rotate" /\ call.length > 0 /\ call.offset + call.length > bit_sz) =>
    (call.st = "assert" /\ ~call.oob /\ buf = pre)

\* C7 (as claimed): the buffer of a handle is released at most once, a freed
\* handle's fields are never read, and bitarray_free(NULL) does nothing.
C7_FreedOnce ==
  /\ heap.buf_freed <= 1
  /\ heap.struct_freed <= 1
  /\ ~heap.uaf
  /\ (call.op = "free_null" => heap = NoHeap)

\* C8 (as claimed): with length > 0 the normalized amount lies in [0, length),
\* so that the split index of a rotation that reverses lies in (0, length].
C8_NormalizedRange ==
  (call.op = "rotate" /\ call.length > 0) =>
    /\ call.norm \in 0..(call.length - 1)
    /\ (call.norm # 0 => (call.length - call.norm) \in 1..call.length)

\* Bit j of the range while bitarray_reverse_range runs, and before it.
RvBit(j) == bitarray_get(rv.m, j).val

\* C9: bitarray_reverse_range(start, length) on a range inside the array
\* keeps right - left = remaining, has at every loop head mirrored the bits
\* outside [left, right) (in the tail loop: outside [i, right - (i - left)))
\* and left the others alone, returns with the bit formerly at start + k at
\* start + length - 1 - k for every k, and run twice restores the buffer.
C9_Reverse ==
  /\ (pc = "inrev") =>
       LET lo == IF rv.pc = "bulk" THEN rv.left ELSE rv.i
           hi == IF rv.pc = "bulk" THEN rv.right ELSE rv.right - (rv.i - rv.left)
       IN /\ rv.right - rv.left = rv.remaining
          /\ rv.m.st = "run"
          /\ \A k \in 0..(rv.length - 1) :
               RvBit(rv.start + k) =
                 (IF rv.start + k >= lo /\ rv.start + k < hi
                    THEN GetBit(pre, bit_sz, rv.start + k)
                    ELSE GetBit(pre, bit_sz, rv.start + rv.length - 1 - k))
  /\ Reversed =>
       /\ call.st = "run"
       /\ \A k \in 0..(call.length - 1) :
            GetBit(buf, bit_sz, call.start + call.length - 1 - k)
              = GetBit(pre, bit_sz, call.start + k)
       /\ \A j \in 0..(bit_sz - 1) :
            (j < call.start \/ j >= call.start + call.length)
              => GetBit(buf, bit_sz, j) = GetBit(pre, bit_sz, j)
  /\ (Reversed /\ call.round = 2) => buf = orig

\* A reversal of an odd number of bits, 128 or more, with a tail of at least
\* three bits, has returned for the second time; the first changed the buffer.
C9_Witness ==
  /\ Reversed /\ call.round = 2
  /\ call.length >= BulkBits /\ call.length % 2 = 1
  /\ call.right - call.left >= 3
  /\ call.start % ByteBits # 0
  /\ pre # orig
  /\ buf = orig

\* The last byte a wide access at bit_index touches.
WideLast(bit_index) ==
  (bit_index \div 8) + (IF bit_index % 8 = 0 THEN WordBytes - 1 ELSE WordBytes)

\* C10: while bitarray_reverse_range runs on a range inside the array, no
\* byte behind the buffer is accessed: the wide accesses of every bulk
\* iteration end inside the ceil(bit_sz/8) bytes.
C10_WideInBounds ==
  /\ (pc = "inrev") =>
       /\ ~rv.m.oob
       /\ (rv.pc = "bulk" /\ rv.remaining >= BulkBits) =>
            /\ WideLast(rv.left) < rv.m.alloc
            /\ WideLast(rv.right - WordBits) < rv.m.alloc
  /\ Reversed => ~call.oob

\* A bulk iteration has run on a range that ends at bit_sz, the last bit of
\* the buffer's last byte.
C10_Witness ==
  /\ pc = "inrev" /\ rv.left > rv.start
  /\ rv.start + rv.length = bit_sz
  /\ bit_sz = ByteBits * rv.m.alloc
  /\ rv.m.mem # Machine(pre, bit_sz, bit_sz, 0, FALSE).mem

====
